---- MODULE Spec2Model ----
(***************************************************************************)
(* A model of csvToXls.go: the CSV -> XLSX converter (single file, one     *)
(* workbook per file of a directory, or one merged workbook with a sheet   *)
(* per file).                                                              *)
(*                                                                         *)
(* A Go string is a sequence of bytes; a byte is written as a one          *)
(* character TLA+ string ("a", "[", "_", ...).  The two bytes of one       *)
(* two-byte UTF-8 character are written "C3" (lead byte) and "A9"          *)
(* (continuation byte).                                                    *)
(***************************************************************************)
EXTENDS Integers, Sequences, FiniteSets, TLC

----------------------------------------------------------------------------
(* Strings *)

\* The empty Go string.
Empty == << >>

\* s[:n] for 0 <= n <= len(s)
Prefix(s, n) == SubSeq(s, 1, n)

\* strings.HasPrefix / strings.HasSuffix
HasPrefix(s, p) == Len(s) >= Len(p) /\ SubSeq(s, 1, Len(p)) = p
HasSuffix(s, p) == Len(s) >= Len(p) /\ SubSeq(s, Len(s) - Len(p) + 1, Len(s)) = p

\* strings.TrimPrefix / strings.TrimSuffix: remove p once if s starts (ends) with it
TrimPrefix(s, p) == IF HasPrefix(s, p) THEN SubSeq(s, Len(p) + 1, Len(s)) ELSE s
TrimSuffix(s, p) == IF HasSuffix(s, p) THEN SubSeq(s, 1, Len(s) - Len(p)) ELSE s

\* A mutant of ReplaceAll: only the first occurrence is replaced
\* (strings.Replace(s, old, new, 1)).
ReplaceFirst(s, old, new) ==
    [i \in 1..Len(s) |->
        IF s[i] = old /\ (\A j \in 1..(i - 1) : s[j] # old) THEN new ELSE s[i]]

\* strings.ReplaceAll(s, old, new) for a one-byte old and a one-byte new
ReplaceAll(s, old, new) ==
    [i \in 1..Len(s) |-> IF s[i] = old THEN new ELSE s[i]]

\* unicode.ToLower on one byte of the model's alphabet
LowerByte(b) ==
    CASE b = "A" -> "a"
      [] b = "C" -> "c"
      [] b = "S" -> "s"
      [] b = "V" -> "v"
      [] OTHER -> b

\* strings.ToLower
ToLower(s) == [i \in 1..Len(s) |-> LowerByte(s[i])]

\* utf8.RuneCountInString: every byte starts a rune except a continuation
\* byte that follows its lead byte (a stray byte counts as one rune).
RuneCountInString(s) ==
    Cardinality({i \in 1..Len(s) : ~(s[i] = "A9" /\ i > 1 /\ s[i - 1] = "C3")})

\* n copies of the byte b
Repeat(b, n) == [i \in 1..n |-> b]

----------------------------------------------------------------------------
(* sanitizeSheetName *)

\* Characters not allowed in Excel sheet names: [ ] * ? / \ : '
invalidChars == <<"[", "]", "*", "?", "/", "\\", ":", "'">>

\* The name given to a sheet whose sanitized name is empty.
FallbackName == <<"S", "h", "e", "e", "t">>

\* The loop over invalidChars, from its k-th element on.
RECURSIVE SanitizeLoop(_, _)
SanitizeLoop(result, k) ==
    IF k > Len(invalidChars) THEN result
    ELSE SanitizeLoop(ReplaceAll(result, invalidChars[k], "_"), k + 1)

\* A mutant of sanitizeSheetName: an empty name is let through.
SanitizeNoFallback(name) == SanitizeLoop(name, 1)

\* Sanitize the sheet name by removing invalid characters
sanitizeSheetName(name) ==
    LET result == SanitizeLoop(name, 1)
    IN  IF result = Empty THEN FallbackName ELSE result

----------------------------------------------------------------------------
(* The spreadsheet backend (excelize v2), as the program uses it.           *)
(* A workbook is a sequence of sheets and the index of the active one; a    *)
(* sheet has a name, the cells that were set (a function from <<column,     *)
(* row>>, both 1-based, to the value) and the column widths that were set   *)
(* (a function from the column number).                                     *)

\* The backend's limits: columns per sheet, rows per sheet, bytes in a name.
MaxColumns == 16384
TotalRows == 1048576
MaxSheetNameLength == 31

NoCells == [p \in {} |-> Empty]
NoWidths == [c \in {} |-> 0]

\* The name of the sheet a new workbook starts with.
DefaultSheetName == <<"S", "h", "e", "e", "t", "1">>

\* excelize.NewFile()
NewFile ==
    [sheets |-> << [name |-> DefaultSheetName, cells |-> NoCells, widths |-> NoWidths] >>,
     active |-> 0]

\* f.GetSheetName(index)
GetSheetName(f, index) ==
    IF index + 1 \in DOMAIN f.sheets THEN f.sheets[index + 1].name ELSE Empty

\* The backend compares sheet names without regard to case.
EqualFold(s, t) == ToLower(s) = ToLower(t)

\* The backend's check of a sheet name: "" when it is accepted.
checkSheetName(name) ==
    IF name = Empty THEN "blank"
    ELSE IF RuneCountInString(name) > MaxSheetNameLength THEN "length"
    ELSE IF name[1] = "'" \/ name[Len(name)] = "'" THEN "quote"
    ELSE IF \E i \in 1..Len(name) : name[i] \in {":", "\\", "/", "?", "*", "[", "]"}
         THEN "invalid"
    ELSE ""

\* f.GetSheetIndex(sheet): the 0-based index of the sheet, -1 when there is none
GetSheetIndex(f, sheet) ==
    LET hits == {i \in DOMAIN f.sheets : EqualFold(f.sheets[i].name, sheet)}
    IN  IF checkSheetName(sheet) # "" \/ hits = {} THEN -1
        ELSE (CHOOSE i \in hits : \A j \in hits : i <= j) - 1

\* f.NewSheet(sheet): a rejected name is an error; a sheet that exists is
\* returned as it is; otherwise an empty sheet is appended.  `reject` is the
\* backend refusing the sheet for a reason of its own.
NewSheet(f, sheet, reject) ==
    IF checkSheetName(sheet) # "" \/ reject THEN [f |-> f, err |-> TRUE]
    ELSE IF GetSheetIndex(f, sheet) # -1 THEN [f |-> f, err |-> FALSE]
    ELSE [f |-> [f EXCEPT !.sheets =
                    Append(@, [name |-> sheet, cells |-> NoCells, widths |-> NoWidths])],
          err |-> FALSE]

\* f.SetActiveSheet(index): a negative index stands for the first sheet
SetActiveSheet(f, index) ==
    LET at == IF index < 0 THEN 0 ELSE index
    IN  IF at + 1 \in DOMAIN f.sheets THEN [f EXCEPT !.active = at] ELSE f

\* f.DeleteSheet(sheet): nothing happens when the workbook has one sheet only
\* or has no sheet of that name; the active sheet stays active when it is
\* not the deleted one, else the first sheet becomes active.
DeleteSheet(f, sheet) ==
    LET idx == GetSheetIndex(f, sheet)
        activeName == GetSheetName(f, f.active)
        rest == [sheets |-> [i \in 1..(Len(f.sheets) - 1) |->
                               IF i <= idx THEN f.sheets[i] ELSE f.sheets[i + 1]],
                 active |-> 0]
    IN  IF Len(f.sheets) = 1 \/ idx = -1 THEN f
        ELSE SetActiveSheet(rest, GetSheetIndex(rest, activeName))

Letters == <<"A", "B", "C", "D", "E", "F", "G", "H", "I", "J", "K", "L", "M",
             "N", "O", "P", "Q", "R", "S", "T", "U", "V", "W", "X", "Y", "Z">>

\* excelize.ColumnNumberToName(num): the column's letters, Empty on an error
RECURSIVE ColumnLetters(_)
ColumnLetters(num) ==
    IF num <= 0 THEN Empty
    ELSE ColumnLetters((num - 1) \div 26) \o <<Letters[((num - 1) % 26) + 1]>>

ColumnNumberToName(num) ==
    IF num < 1 \/ num > MaxColumns THEN Empty ELSE ColumnLetters(num)

\* The backend reading a column's letters back.
RECURSIVE ColumnNameToNumber(_)
ColumnNameToNumber(name) ==
    IF name = Empty THEN 0
    ELSE 26 * ColumnNameToNumber(Prefix(name, Len(name) - 1))
         + (CHOOSE k \in 1..26 : Letters[k] = name[Len(name)])

\* excelize.CoordinatesToCellName(col, row): the cell's name as its column
\* letters and its row; err when the coordinates are outside the sheet.
CoordinatesToCellName(col, row) ==
    IF col < 1 \/ col > MaxColumns \/ row < 1 \/ row > TotalRows
    THEN [name |-> [col |-> Empty, row |-> 0], err |-> TRUE]
    ELSE [name |-> [col |-> ColumnLetters(col), row |-> row], err |-> FALSE]

\* f.SetCellValue(sheet, cellName, value)
SetCellValue(f, sheet, cellName, value) ==
    LET idx == GetSheetIndex(f, sheet)
        at == <<ColumnNameToNumber(cellName.col), cellName.row>>
    IN  IF idx = -1 THEN [f |-> f, err |-> TRUE]
        ELSE [f |-> [f EXCEPT !.sheets[idx + 1].cells =
                        [p \in DOMAIN @ \cup {at} |-> IF p = at THEN value ELSE @[p]]],
              err |-> FALSE]

\* f.SetColWidth(sheet, colName, colName, width); its error is not looked at
SetColWidth(f, sheet, colName, width) ==
    LET idx == GetSheetIndex(f, sheet)
        col == ColumnNameToNumber(colName)
    IN  IF idx = -1 \/ colName = Empty \/ width > 255 THEN f
        ELSE [f EXCEPT !.sheets[idx + 1].widths =
                [c \in DOMAIN @ \cup {col} |-> IF c = col THEN width ELSE @[c]]]

----------------------------------------------------------------------------
(* convertCSVtoSheet and adjustColumnWidths *)

\* What the CSV reader delivers for one file: whether the file opens, the
\* records it yields in order (each a non-empty sequence of fields), and
\* whether the read after the last of them is an error instead of io.EOF.
CsvFile(open, records, readErr) ==
    [open |-> open, records |-> records, readErr |-> readErr]

Quote == <<"\"">>

\* A mutant of StripQuotes: the trailing quote is left in place.
StripLeadingOnly(value) == TrimPrefix(value, Quote)

\* Remove quotes at the beginning and end
StripQuotes(value) == TrimSuffix(TrimPrefix(value, Quote), Quote)

\* int(float64(runes) * 1.2): the product of an integer below 2^50 and the
\* double nearest 1.2 rounds to a double whose integer part is floor(12n/10).
PaddedWidth(runes) == (runes * 12) \div 10

\* columnWidths[colIndex] of a Go map[int]int: 0 for a missing key
WidthAt(columnWidths, colIndex) ==
    IF colIndex \in DOMAIN columnWidths THEN columnWidths[colIndex] ELSE 0

\* The inner loop over one record's fields, from the 0-based colIndex on.
\* The workbook is changed in place, so the cells set before an error stay.
RECURSIVE WriteFields(_, _, _, _, _, _)
WriteFields(f, sheetName, columnWidths, record, rowIndex, colIndex) ==
    IF colIndex >= Len(record)
    THEN [f |-> f, columnWidths |-> columnWidths, err |-> FALSE]
    ELSE
      LET value == StripQuotes(record[colIndex + 1])
          cell == CoordinatesToCellName(colIndex + 1, rowIndex)
          set == SetCellValue(f, sheetName, cell.name, value)
          valueWidth == PaddedWidth(RuneCountInString(value))
          widened ==
              IF valueWidth > WidthAt(columnWidths, colIndex)
              THEN [c \in DOMAIN columnWidths \cup {colIndex} |->
                      IF c = colIndex THEN valueWidth ELSE columnWidths[c]]
              ELSE columnWidths
      IN  IF cell.err THEN [f |-> f, columnWidths |-> columnWidths, err |-> TRUE]
          ELSE IF set.err THEN [f |-> f, columnWidths |-> columnWidths, err |-> TRUE]
          ELSE WriteFields(set.f, sheetName, widened, record, rowIndex, colIndex + 1)

\* The loop over reader.Read(), from the 1-based rowIndex on.
RECURSIVE ReadLoop(_, _, _, _, _)
ReadLoop(csv, f, sheetName, columnWidths, rowIndex) ==
    IF rowIndex > Len(csv.records)
    THEN [f |-> f, columnWidths |-> IF csv.readErr THEN NoWidths ELSE columnWidths,
          err |-> csv.readErr]
    ELSE
      LET row == WriteFields(f, sheetName, columnWidths, csv.records[rowIndex], rowIndex, 0)
      IN  IF row.err THEN [f |-> row.f, columnWidths |-> NoWidths, err |-> TRUE]
          ELSE ReadLoop(csv, row.f, sheetName, row.columnWidths, rowIndex + 1)

\* convertCSVtoSheet(csvFilePath, f, sheetName): the workbook after it, the
\* column widths (nil on an error) and whether it returned an error.
convertCSVtoSheet(csv, f, sheetName) ==
    IF ~csv.open THEN [f |-> f, columnWidths |-> NoWidths, err |-> TRUE]
    ELSE ReadLoop(csv, f, sheetName, NoWidths, 1)

minWidth == 8
maxWidth == 100

\* A mutant of ClampWidth: the upper limit is not applied.
ClampWidthNoMax(width) == IF width < minWidth THEN minWidth ELSE width

\* Apply minimum and maximum constraints
ClampWidth(width) ==
    IF width < minWidth THEN minWidth
    ELSE IF width > maxWidth THEN maxWidth
    ELSE width

\* The loop over the map's keys; `todo` are the keys not yet visited.  Each
\* key sets a column of its own, so the order of the visit changes nothing.
RECURSIVE AdjustLoop(_, _, _, _)
AdjustLoop(f, sheetName, columnWidths, todo) ==
    IF todo = {} THEN f
    ELSE
      LET colIndex == CHOOSE c \in todo : \A d \in todo : c <= d
          colName == ColumnNumberToName(colIndex + 1)
          width == ClampWidth(columnWidths[colIndex])
      IN  AdjustLoop(SetColWidth(f, sheetName, colName, width), sheetName,
                     columnWidths, todo \ {colIndex})

adjustColumnWidths(f, sheetName, columnWidths) ==
    AdjustLoop(f, sheetName, columnWidths, DOMAIN columnWidths)

----------------------------------------------------------------------------
(* Paths and the helpers of the three modes *)

\* A path is its directory (a sequence of components) and its last
\* component; the empty flag value "" is NoPath.
Path(dir, name) == [dir |-> dir, name |-> name]
NoPath == Path(<< >>, Empty)

\* filepath.Base(path)
Base(path) == path.name

\* filepath.Ext(name): the suffix of name from its last dot on
Ext(name) ==
    LET dots == {k \in 1..Len(name) : name[k] = "."}
    IN  IF dots = {} THEN Empty
        ELSE SubSeq(name, CHOOSE k \in dots : \A l \in dots : l <= k, Len(name))

CsvExt == <<".", "c", "s", "v">>
XlsxExt == <<".", "x", "l", "s", "x">>

\* strings.HasSuffix(strings.ToLower(path), ".csv")
IsCsvPath(path) == HasSuffix(ToLower(path.name), CsvExt)

\* strings.TrimSuffix(csvFilePath, filepath.Ext(csvFilePath)) + ".xlsx"
XlsxPathOf(csvFilePath) ==
    Path(csvFilePath.dir, TrimSuffix(csvFilePath.name, Ext(csvFilePath.name)) \o XlsxExt)

\* A mutant of MergedXlsxPath: the workbook is put beside the directory.
MergedXlsxPathBeside(dirPath) == Path(dirPath.dir, Base(dirPath) \o XlsxExt)

\* filepath.Join(dirPath, filepath.Base(dirPath) + ".xlsx")
MergedXlsxPath(dirPath) ==
    Path(Append(dirPath.dir, dirPath.name), Base(dirPath) \o XlsxExt)

\* The longest sheet name the program lets through, in bytes.
SheetNameLimit == 31

Digits == <<"0", "1", "2", "3", "4", "5", "6", "7", "8", "9">>

\* fmt.Sprintf("%d", n) for n >= 0
RECURSIVE Itoa(_)
Itoa(n) ==
    IF n < 10 THEN <<Digits[n + 1]>>
    ELSE Itoa(n \div 10) \o <<Digits[(n % 10) + 1]>>

\* The file name without its extension, cut to 31 bytes.
TruncatedStem(csvFilePath) ==
    LET baseName == Base(csvFilePath)
        sheetName == TrimSuffix(baseName, Ext(baseName))
    IN  IF Len(sheetName) > SheetNameLimit THEN Prefix(sheetName, SheetNameLimit)
        ELSE sheetName

\* The name with the suffix _counter, cut so that it has at most 31 bytes.
Suffixed(originalName, counter) ==
    LET suffix == <<"_">> \o Itoa(counter)
    IN  IF Len(originalName) + Len(suffix) > SheetNameLimit
        THEN Prefix(originalName, SheetNameLimit - Len(suffix)) \o suffix
        ELSE originalName \o suffix

\* A mutant of DedupLoop: a taken name gets the suffix _1 and is not looked
\* up again (an if in place of the for).
DedupOnce(sheetNames, originalName, sheetName, counter) ==
    IF sheetName \in sheetNames THEN Suffixed(originalName, counter) ELSE sheetName

\* Handle duplicate names: for sheetNames[sheetName] { ...; counter++ }
RECURSIVE DedupLoop(_, _, _, _)
DedupLoop(sheetNames, originalName, sheetName, counter) ==
    IF sheetName \notin sheetNames THEN sheetName
    ELSE DedupLoop(sheetNames, originalName, Suffixed(originalName, counter), counter + 1)

\* A mutant of MergeTally: a failed conversion is not counted.
MergeTallyDropsFailure(successCount, failCount, createErr, convErr) ==
    IF createErr THEN [successCount |-> successCount, failCount |-> failCount + 1]
    ELSE IF convErr THEN [successCount |-> successCount, failCount |-> failCount]
    ELSE [successCount |-> successCount + 1, failCount |-> failCount]

\* The counters after one file of the merged mode.
MergeTally(successCount, failCount, createErr, convErr) ==
    IF createErr THEN [successCount |-> successCount, failCount |-> failCount + 1]
    ELSE IF convErr THEN [successCount |-> successCount, failCount |-> failCount + 1]
    ELSE [successCount |-> successCount + 1, failCount |-> failCount]

\* A mutant of WalkTally: a failed file is counted as converted as well.
WalkTallyCountsAll(successCount, failCount, err) ==
    [successCount |-> successCount + 1,
     failCount |-> IF err # "" THEN failCount + 1 ELSE failCount]

\* The counters after one file of the per-file mode.
WalkTally(successCount, failCount, err) ==
    IF err # "" THEN [successCount |-> successCount, failCount |-> failCount + 1]
    ELSE [successCount |-> successCount + 1, failCount |-> failCount]

\* A mutant of ExitOf: the error of the mode is printed and the exit is 0.
ExitOfIgnoresError(err) == 0

\* main after the mode returned: os.Exit(1) on an error, else the end of main
ExitOf(err) == IF err # "" THEN 1 ELSE 0

\* processFile(csvFilePath, sheetName): the error it returns ("" for nil),
\* the name it gave NewSheet (in `created`, empty when it did not get there)
\* and the SaveAs it attempted (in `saves`, empty when it did not get there).
\* exists, csv, reject and saveOk are what the file system, the reader and
\* the backend answer.
processFile(csvFilePath, sheetNameArg, exists, csv, reject, saveOk) ==
    LET sheetName ==
            IF sheetNameArg = Empty THEN sanitizeSheetName(TruncatedStem(csvFilePath))
            ELSE sheetNameArg
        xlsxFilePath == XlsxPathOf(csvFilePath)
        f0 == NewFile
        defaultSheet == GetSheetName(f0, 0)
        f1 == NewSheet(f0, sheetName, reject).f
        conv == convertCSVtoSheet(csv, f1, sheetName)
        f2 == adjustColumnWidths(conv.f, sheetName, conv.columnWidths)
        f3 == SetActiveSheet(f2, GetSheetIndex(f2, sheetName))
        f4 == DeleteSheet(f3, defaultSheet)
    IN  IF ~exists THEN [err |-> "not exist", created |-> << >>, saves |-> << >>]
        ELSE IF ~IsCsvPath(csvFilePath)
        THEN [err |-> "not csv", created |-> << >>, saves |-> << >>]
        ELSE IF conv.err
        THEN [err |-> "conversion", created |-> <<sheetName>>, saves |-> << >>]
        ELSE [err |-> IF saveOk THEN "" ELSE "save",
              created |-> <<sheetName>>,
              saves |-> << [path |-> xlsxFilePath, book |-> f4, ok |-> saveOk,
                            src |-> csvFilePath] >>]

----------------------------------------------------------------------------
(* State *)

VARIABLES
    args,         \* the command line: [parse, helpArg, f, d, s]
    pc,           \* "main", "walk", "collect", "loop", "exit" ("idle": unused)
    exitCode,     \* the exit code of the process, -1 while it runs
    ret,          \* the error the selected mode returned: "none" when no mode
                  \* has returned, "" for nil
    visited,      \* the number of entries the walk has called back for
    found,        \* per-file mode: the CSV files the walk has yielded, in order
    csvFiles,     \* merged mode: the collected CSV files
    successCount,
    failCount,
    sheetNames,   \* merged mode: the registry of sheet names (a Go map[string]bool)
    firstSheet,   \* merged mode: the first sheet created, "" when there is none
    book,         \* merged mode: the workbook f
    log,          \* merged mode: per processed file, its path, originalName,
                  \* sheetName and what happened: "createFail", "convFail", "ok"
    created,      \* the names given to NewSheet, in order
    saves,        \* the SaveAs calls: the path, the workbook as it was given,
                  \* whether the call succeeded, the CSV file it is the
                  \* workbook of (NoPath for the merged workbook)
    sanIn,        \* sanitizeSheetName alone: the name it is first applied to
    sanOut,       \* ... and its results, each the sanitized previous one
    cvCsv,        \* convertCSVtoSheet alone: what the reader delivers
    cvF,          \* ... the workbook
    cvWidths,     \* ... the column widths convertCSVtoSheet returned
    cvPc          \* ... "start", "failed", "converted", "adjusted" ("idle": unused)

mainVars == <<args, pc, exitCode, ret, visited, found, csvFiles, successCount,
              failCount, sheetNames, firstSheet, book, log, created, saves>>
sanVars == <<sanIn, sanOut>>
cvVars == <<cvCsv, cvF, cvWidths, cvPc>>
vars == <<mainVars, sanVars, cvVars>>

\* All strings of at most n bytes of the set chars.
StringsUpTo(chars, n) == UNION {[1..k -> chars] : k \in 0..n}

SanIdle == sanIn = Empty /\ sanOut = <<Empty, Empty>>
CvIdle == cvCsv = CsvFile(FALSE, << >>, FALSE) /\ cvF = NewFile
          /\ cvWidths = NoWidths /\ cvPc = "idle"

\* The state of main's variables once the flags are parsed.
MainStart(a, at) ==
    /\ args = a
    /\ pc = at
    /\ exitCode = -1
    /\ ret = "none"
    /\ visited = 0
    /\ found = << >>
    /\ csvFiles = << >>
    /\ successCount = 0
    /\ failCount = 0
    /\ sheetNames = {}
    /\ firstSheet = Empty
    /\ book = NewFile
    /\ log = << >>
    /\ created = << >>
    /\ saves = << >>

MainIdle == MainStart([parse |-> "ok", helpArg |-> FALSE, f |-> NoPath, d |-> NoPath,
                       s |-> FALSE], "idle")

----------------------------------------------------------------------------
(* Inputs *)

\* The most entries a walk visits, and the most files of one name the
\* collecting walk may yield in a row when it yields nothing else.
MaxFiles == 2
MaxRun == 33

\* File names: a.csv, A.CSV, Sheet1.csv (the name of the default sheet),
\* .csv, a:1.csv, a name of 31 a's, and a name of 30 a's and one two-byte
\* character.
NameA == <<"a">> \o CsvExt
NameUpperA == <<"A", ".", "C", "S", "V">>
NameDefault == DefaultSheetName \o CsvExt
NameNoStem == CsvExt
NameColon == <<"a", ":", "1">> \o CsvExt
NameLong == Repeat("a", 31) \o CsvExt
NameWide == Repeat("a", 30) \o <<"C3", "A9">> \o CsvExt
NameText == <<"a", ".", "t", "x", "t">>

CsvNames == {NameA, NameUpperA, NameDefault, NameNoStem, NameColon, NameLong, NameWide}
RunNames == {NameLong}

\* The directory given to -d, and the files given to -f.
DirArg == Path(<< <<"d">> >>, <<"a">>)
FileArgs == {Path(<< <<"d">> >>, n) : n \in CsvNames \cup {NameText}}

\* What the reader delivers: a file of one record; a file whose second read
\* is an error; a file that does not open.
OkCsv == CsvFile(TRUE, << <<<<"a">>>> >>, FALSE)
BrokenCsv == CsvFile(TRUE, << <<<<"a">>>> >>, TRUE)
ClosedCsv == CsvFile(FALSE, << >>, FALSE)
Contents == {OkCsv, BrokenCsv, ClosedCsv}

\* The command lines: flag.Parse() succeeds, prints the help (-h as a flag)
\* or fails (an unknown flag); helpArg: some argument is -h or --help.
ArgSets ==
    [parse : {"ok", "help", "error"}, helpArg : BOOLEAN,
     f : {NoPath} \cup FileArgs, d : {NoPath, DirArg}, s : BOOLEAN]

\* The path of the n-th entry of the walk, a file called name: every entry
\* lies in a subdirectory of its own.
EntryPath(n, name) == Path(Append(Append(DirArg.dir, DirArg.name), Itoa(n)), name)

\* Whether the collecting walk may yield one more file called name: fewer
\* than MaxFiles entries so far, or a run of one name that goes on.
MayCollect(name) ==
    \/ visited < MaxFiles
    \/ /\ name \in RunNames
       /\ visited = Len(csvFiles)
       /\ Len(csvFiles) < MaxRun
       /\ \A k \in DOMAIN csvFiles : csvFiles[k].name = name

\* What the environment may answer while one of `count` collected files is
\* processed: in a run of more than MaxFiles files every file converts.
ContentsAt(count) == IF count > MaxFiles THEN {OkCsv} ELSE Contents
RejectsAt(count) == IF count > MaxFiles THEN {FALSE} ELSE BOOLEAN

----------------------------------------------------------------------------
(* main *)

Init ==
    /\ \E a \in ArgSets : MainStart(a, "main")
    /\ SanIdle
    /\ CvIdle

Exit(code, err) ==
    /\ pc' = "exit"
    /\ exitCode' = code
    /\ ret' = err

\* flag.Parse() ends the process, help was asked for, or the flags are wrong.
MainUsage ==
    /\ pc = "main"
    /\ \/ args.parse = "error" /\ Exit(2, "none")
       \/ args.parse = "help" /\ Exit(0, "none")
       \/ args.parse = "ok" /\ args.helpArg /\ Exit(0, "none")
       \/ /\ args.parse = "ok" /\ ~args.helpArg
          /\ \/ args.f = NoPath /\ args.d = NoPath
             \/ args.f # NoPath /\ args.d # NoPath
          /\ Exit(1, "none")
    /\ UNCHANGED <<args, visited, found, csvFiles, successCount, failCount,
                   sheetNames, firstSheet, book, log, created, saves>>
    /\ UNCHANGED <<sanVars, cvVars>>

Dispatch == pc = "main" /\ args.parse = "ok" /\ ~args.helpArg

\* Single file mode: processFile(*fileFlag, "")
MainFile ==
    /\ Dispatch
    /\ args.f # NoPath /\ args.d = NoPath
    /\ \E exists \in BOOLEAN, csv \in Contents, reject \in BOOLEAN, saveOk \in BOOLEAN :
         LET r == processFile(args.f, Empty, exists, csv, reject, saveOk)
         IN  /\ created' = created \o r.created
             /\ saves' = saves \o r.saves
             /\ Exit(ExitOf(r.err), r.err)
    /\ UNCHANGED <<args, visited, found, csvFiles, successCount, failCount,
                   sheetNames, firstSheet, book, log>>
    /\ UNCHANGED <<sanVars, cvVars>>

\* Directory mode up to the walk: the directory exists or the mode returns.
MainDir ==
    /\ Dispatch
    /\ args.f = NoPath /\ args.d # NoPath
    /\ \E exists \in BOOLEAN :
         IF exists
         THEN /\ pc' = IF args.s THEN "collect" ELSE "walk"
              /\ UNCHANGED <<exitCode, ret>>
         ELSE Exit(ExitOf("not exist"), "not exist")
    /\ UNCHANGED <<args, visited, found, csvFiles, successCount, failCount,
                   sheetNames, firstSheet, book, log, created, saves>>
    /\ UNCHANGED <<sanVars, cvVars>>

----------------------------------------------------------------------------
(* processDirectory: one workbook per CSV file *)

\* The walk calls back for a CSV file: processFile(path, "") and the count.
WalkCsv ==
    /\ pc = "walk"
    /\ \E name \in CsvNames :
         /\ visited < MaxFiles
         /\ \E csv \in Contents, reject \in BOOLEAN, saveOk \in BOOLEAN :
              LET path == EntryPath(visited + 1, name)
                  r == processFile(path, Empty, TRUE, csv, reject, saveOk)
                  t == WalkTally(successCount, failCount, r.err)
              IN  /\ IsCsvPath(path)
                  /\ found' = Append(found, path)
                  /\ created' = created \o r.created
                  /\ saves' = saves \o r.saves
                  /\ successCount' = t.successCount
                  /\ failCount' = t.failCount
    /\ visited' = visited + 1
    /\ UNCHANGED <<args, pc, exitCode, ret, csvFiles, sheetNames, firstSheet, book, log>>
    /\ UNCHANGED <<sanVars, cvVars>>

\* The walk calls back for a directory or for a file that is no CSV file.
WalkOther ==
    /\ pc \in {"walk", "collect"}
    /\ visited < MaxFiles
    /\ \E isDir \in BOOLEAN :
         isDir \/ ~IsCsvPath(EntryPath(visited + 1, NameText))
    /\ visited' = visited + 1
    /\ UNCHANGED <<args, pc, exitCode, ret, found, csvFiles, successCount, failCount,
                   sheetNames, firstSheet, book, log, created, saves>>
    /\ UNCHANGED <<sanVars, cvVars>>

\* The walk calls back with an error: the walk stops and the mode returns it.
WalkError ==
    /\ pc \in {"walk", "collect"}
    /\ visited < MaxFiles
    /\ Exit(ExitOf("scan"), "scan")
    /\ UNCHANGED <<args, visited, found, csvFiles, successCount, failCount,
                   sheetNames, firstSheet, book, log, created, saves>>
    /\ UNCHANGED <<sanVars, cvVars>>

\* The walk is over: the summary is printed and processDirectory returns nil.
WalkEnd ==
    /\ pc = "walk"
    /\ Exit(ExitOf(""), "")
    /\ UNCHANGED <<args, visited, found, csvFiles, successCount, failCount,
                   sheetNames, firstSheet, book, log, created, saves>>
    /\ UNCHANGED <<sanVars, cvVars>>

----------------------------------------------------------------------------
(* processDirectoryToSingleFile: one workbook, one sheet per CSV file *)

\* The walk calls back for a CSV file: it is collected.
CollectCsv ==
    /\ pc = "collect"
    /\ \E name \in CsvNames :
         /\ MayCollect(name)
         /\ IsCsvPath(EntryPath(visited + 1, name))
         /\ csvFiles' = Append(csvFiles, EntryPath(visited + 1, name))
    /\ visited' = visited + 1
    /\ UNCHANGED <<args, pc, exitCode, ret, found, successCount, failCount,
                   sheetNames, firstSheet, book, log, created, saves>>
    /\ UNCHANGED <<sanVars, cvVars>>

\* The walk is over: without CSV files the mode returns nil, else the loop
\* over the files starts with an empty registry.
CollectEnd ==
    /\ pc = "collect"
    /\ IF Len(csvFiles) = 0
       THEN Exit(ExitOf(""), "")
       ELSE pc' = "loop" /\ UNCHANGED <<exitCode, ret>>
    /\ UNCHANGED <<args, visited, found, csvFiles, successCount, failCount,
                   sheetNames, firstSheet, book, log, created, saves>>
    /\ UNCHANGED <<sanVars, cvVars>>

\* One turn of the loop over csvFiles: the file after those in the log.
MergeFile ==
    /\ pc = "loop"
    /\ Len(log) < Len(csvFiles)
    /\ \E csv \in ContentsAt(Len(csvFiles)), reject \in RejectsAt(Len(csvFiles)) :
         LET csvFilePath == csvFiles[Len(log) + 1]
             originalName == sanitizeSheetName(TruncatedStem(csvFilePath))
             sheetName == DedupLoop(sheetNames, originalName, originalName, 1)
             made == NewSheet(book, sheetName, reject)
             conv == convertCSVtoSheet(csv, made.f, sheetName)
             t == MergeTally(successCount, failCount, made.err, ~made.err /\ conv.err)
         IN  /\ sheetNames' = sheetNames \cup {sheetName}
             /\ created' = Append(created, sheetName)
             /\ successCount' = t.successCount
             /\ failCount' = t.failCount
             /\ IF made.err
                THEN /\ UNCHANGED <<firstSheet, book>>
                     /\ log' = Append(log, [path |-> csvFilePath, originalName |-> originalName,
                                            sheetName |-> sheetName, outcome |-> "createFail"])
                ELSE /\ firstSheet' = IF firstSheet = Empty THEN sheetName ELSE firstSheet
                     /\ book' = IF conv.err THEN conv.f
                                ELSE adjustColumnWidths(conv.f, sheetName, conv.columnWidths)
                     /\ log' = Append(log, [path |-> csvFilePath, originalName |-> originalName,
                                            sheetName |-> sheetName,
                                            outcome |-> IF conv.err THEN "convFail" ELSE "ok"])
    /\ UNCHANGED <<args, pc, exitCode, ret, visited, found, csvFiles, saves>>
    /\ UNCHANGED <<sanVars, cvVars>>

\* After the loop: the first sheet is made active and the default sheet is
\* deleted, the workbook is saved, and the mode returns.
MergeSave ==
    /\ pc = "loop"
    /\ Len(log) = Len(csvFiles)
    /\ \E saveOk \in BOOLEAN :
         LET defaultSheet == GetSheetName(NewFile, 0)
             f == IF firstSheet # Empty
                  THEN DeleteSheet(SetActiveSheet(book, GetSheetIndex(book, firstSheet)),
                                   defaultSheet)
                  ELSE book
             err == IF saveOk THEN "" ELSE "save"
         IN  /\ book' = f
             /\ saves' = Append(saves, [path |-> MergedXlsxPath(args.d), book |-> f,
                                        ok |-> saveOk, src |-> NoPath])
             /\ Exit(ExitOf(err), err)
    /\ UNCHANGED <<args, visited, found, csvFiles, successCount, failCount,
                   sheetNames, firstSheet, log, created>>
    /\ UNCHANGED <<sanVars, cvVars>>

Next ==
    \/ MainUsage
    \/ MainFile
    \/ MainDir
    \/ WalkCsv
    \/ WalkOther
    \/ WalkError
    \/ WalkEnd
    \/ CollectCsv
    \/ CollectEnd
    \/ MergeFile
    \/ MergeSave

Spec == Init /\ [][Next]_vars

----------------------------------------------------------------------------
(* sanitizeSheetName applied to a name, then to its own result *)

MaxSanLen == 3
SanChars == {"a", "_", "[", "]", "*", "?", "/", "\\", ":", "'"}

InitSanitize ==
    /\ sanIn \in StringsUpTo(SanChars, MaxSanLen)
    /\ sanOut = << >>
    /\ CvIdle
    /\ MainIdle

Sanitize ==
    /\ Len(sanOut) < 2
    /\ sanOut' = Append(sanOut,
                   sanitizeSheetName(IF sanOut = << >> THEN sanIn ELSE sanOut[Len(sanOut)]))
    /\ UNCHANGED <<sanIn, cvVars, mainVars>>

NextSanitize == Sanitize

SpecSanitize == InitSanitize /\ [][NextSanitize]_vars

----------------------------------------------------------------------------
(* convertCSVtoSheet on a new sheet, then adjustColumnWidths *)

MaxRecords == 2

\* Field values as the reader delivers them: empty, "a" in quotes, one
\* quote, and a with a quote after it.
ShortFields == {Empty, <<"\"", "a", "\"">>, <<"\"">>, <<"a", "\"">>}

\* Unquoted fields of 6, 7, 83, 84 and 834 characters: their padded widths
\* are 7, 8, 99, 100 and 1000.
LongFields == {Repeat("a", n) : n \in {6, 7, 83, 84, 834}}

\* Records of one field, of two fields and one of three fields.
Records ==
    {<<x>> : x \in ShortFields \cup LongFields}
    \cup {<<x, y>> : x \in ShortFields, y \in ShortFields}
    \cup {<<Empty, <<"\"">>, <<"\"", "a", "\"">>>>}

CsvInputs ==
    {CsvFile(TRUE, rs, e) : rs \in StringsUpTo(Records, MaxRecords), e \in BOOLEAN}
    \cup {CsvFile(FALSE, << >>, FALSE)}

\* The sheet the conversion writes to.
ConvSheet == <<"a">>

InitConvert ==
    /\ cvCsv \in CsvInputs
    /\ cvF = NewSheet(NewFile, ConvSheet, FALSE).f
    /\ cvWidths = NoWidths
    /\ cvPc = "start"
    /\ SanIdle
    /\ MainIdle

Convert ==
    /\ cvPc = "start"
    /\ LET r == convertCSVtoSheet(cvCsv, cvF, ConvSheet)
       IN  /\ cvF' = r.f
           /\ cvWidths' = r.columnWidths
           /\ cvPc' = IF r.err THEN "failed" ELSE "converted"
    /\ UNCHANGED <<cvCsv, sanVars, mainVars>>

Adjust ==
    /\ cvPc = "converted"
    /\ cvF' = adjustColumnWidths(cvF, ConvSheet, cvWidths)
    /\ cvPc' = "adjusted"
    /\ UNCHANGED <<cvCsv, cvWidths, sanVars, mainVars>>

NextConvert == Convert \/ Adjust

SpecConvert == InitConvert /\ [][NextConvert]_vars

----------------------------------------------------------------------------
(* Properties *)

\* The run got past the flags, and the mode it selected.
Dispatched == args.parse = "ok" /\ ~args.helpArg
PerFileRun == Dispatched /\ args.f = NoPath /\ args.d # NoPath /\ ~args.s
MergedRun == Dispatched /\ args.f = NoPath /\ args.d # NoPath /\ args.s

\* The characters a sheet name must not contain.
Forbidden == {"[", "]", "*", "?", "/", "\\", ":", "'"}

\* The files of the log whose sheet creation succeeded, failed; whose
\* conversion failed; that were converted.
CreatedFiles == {j \in DOMAIN log : log[j].outcome # "createFail"}
FailedFiles == {j \in DOMAIN log : log[j].outcome \in {"createFail", "convFail"}}
ConvertedFiles == {j \in DOMAIN log : log[j].outcome = "ok"}

\* C1: in merged mode the sheet names chosen for the files are pairwise
\* distinct, the registry holds exactly these names, and a name that got a
\* suffix has at most 31 bytes.
C1_SheetNamesDistinct ==
    /\ \A j \in DOMAIN log : \A k \in DOMAIN log :
         j < k => log[j].sheetName # log[k].sheetName
    /\ sheetNames = {log[j].sheetName : j \in DOMAIN log}
    /\ Cardinality(sheetNames) = Len(log)
    /\ \A j \in DOMAIN log :
         log[j].sheetName # log[j].originalName => Len(log[j].sheetName) <= 31

\* C1's case: 33 files of one name of 31 bytes; the 33rd is given the name
\* cut to 28 bytes and the suffix _32.
C1_Witness ==
    /\ Len(log) = 33
    /\ \A j \in DOMAIN log : log[j].originalName = Repeat("a", 31)
    /\ log[10].sheetName = Repeat("a", 29) \o <<"_", "9">>
    /\ log[33].sheetName = Repeat("a", 28) \o <<"_", "3", "2">>

\* C2: the workbook given to the merged mode's save has exactly one sheet
\* for each file whose sheet creation succeeded, under the name chosen for
\* the file (so the default sheet is not among them), when there is such a
\* file.
C2_SavedSheetsAreTheFiles ==
    \A k \in DOMAIN saves :
        (saves[k].src = NoPath /\ CreatedFiles # {}) =>
            /\ Len(saves[k].book.sheets) = Cardinality(CreatedFiles)
            /\ \A j \in CreatedFiles :
                 \E n \in DOMAIN saves[k].book.sheets :
                     saves[k].book.sheets[n].name = log[j].sheetName

\* C3: every name given to sheet creation, in every mode, is not empty, has
\* at most 31 bytes (so at most 31 characters) and none of the forbidden
\* characters; the file .csv is given the sheet name Sheet in single file
\* mode.
C3_SheetNamesValid ==
    /\ \A k \in DOMAIN created :
         /\ created[k] # Empty
         /\ Len(created[k]) <= 31
         /\ RuneCountInString(created[k]) <= 31
         /\ \A n \in 1..Len(created[k]) : created[k][n] \notin Forbidden
    /\ (args.f # NoPath /\ args.f.name = <<".", "c", "s", "v">> /\ created # << >>)
          => created = << <<"S", "h", "e", "e", "t">> >>

\* C3's case: merged mode with two files a:1.csv; the names given to sheet
\* creation are a_1 and a_1_1.
C3_Witness ==
    /\ MergedRun
    /\ Len(csvFiles) = 2
    /\ csvFiles[1].name = <<"a", ":", "1", ".", "c", "s", "v">>
    /\ created = << <<"a", "_", "1">>, <<"a", "_", "1", "_", "1">> >>

\* The sheet convertCSVtoSheet was given.
CvSheet == cvF.sheets[GetSheetIndex(cvF, ConvSheet) + 1]

\* field without one leading and without one trailing double quote
Unquoted(field) ==
    LET lead == IF Len(field) > 0 /\ field[1] = "\"" THEN 1 ELSE 0
        rest == SubSeq(field, lead + 1, Len(field))
        trail == IF Len(rest) > 0 /\ rest[Len(rest)] = "\"" THEN 1 ELSE 0
    IN  SubSeq(rest, 1, Len(rest) - trail)

\* C4: after convertCSVtoSheet succeeds, the cells of the sheet are exactly
\* those at (c, r) for r a record's 1-based position and c in 1..N, N the
\* number of its fields (so no cell lies beyond the last record), and the
\* cell at (c, r) holds field c of record r without one leading and one
\* trailing double quote.
C4_CellsAreTheRecords ==
    cvPc \in {"converted", "adjusted"} =>
        LET recs == cvCsv.records
            cells == CvSheet.cells
        IN  /\ DOMAIN cells =
                 UNION {{<<c, r>> : c \in 1..Len(recs[r])} : r \in 1..Len(recs)}
            /\ \A p \in DOMAIN cells : cells[p] = Unquoted(recs[p[2]][p[1]])

\* C4's case: two records of different lengths were converted, and a field
\* in quotes lost them.
C4_Witness ==
    /\ cvPc = "converted"
    /\ Len(cvCsv.records) = 2
    /\ Len(cvCsv.records[1]) = 2
    /\ Len(cvCsv.records[2]) = 1
    /\ cvCsv.records[1][2] = <<"\"", "a", "\"">>
    /\ CvSheet.cells[<<2, 1>>] = <<"a">>
    /\ <<2, 2>> \notin DOMAIN CvSheet.cells

C10_SanitizeIdempotent ==
    /\ Len(sanOut) = 2 => sanOut[2] = sanOut[1]
    /\ (Len(sanOut) >= 1 /\ sanIn # Empty /\ \A i \in 1..Len(sanIn) : sanIn[i] \notin Forbidden)
          => sanOut[1] = sanIn

\* C10's case: a name with two forbidden characters was sanitized twice.
C10_Witness ==
    /\ Len(sanOut) = 2
    /\ Len(sanIn) = 3
    /\ Cardinality({i \in 1..3 : sanIn[i] \in Forbidden}) = 2
    /\ sanOut[1] # sanIn

\* The SaveAs calls that succeeded.
Written == {k \in DOMAIN saves : saves[k].ok}

\* C6: in per-file mode every CSV file the walk yields is given to
\* processFile once (one sheet creation per file), the two counters add up
\* to the number of these files, the workbooks written are those of as many
\* different files as successCount says, none of them for a file counted as
\* failed (as many files failed as failCount says), and once the walk is
\* over the mode returns nil and the exit code is 0.
C6_PerFileCounts ==
    PerFileRun =>
        /\ Len(created) = Len(found)
        /\ successCount + failCount = Len(found)
        /\ \A k \in Written : \E j \in DOMAIN found :
             saves[k].src = found[j] /\ saves[k].path = XlsxPathOf(found[j])
        /\ \A k \in Written : \A l \in Written : saves[k].src = saves[l].src => k = l
        /\ Cardinality(Written) = successCount
        /\ Cardinality({j \in DOMAIN found : \A k \in Written : saves[k].src # found[j]})
             = failCount
        /\ (pc = "exit" /\ ret \notin {"not exist", "scan"}) => (ret = "" /\ exitCode = 0)

\* C6's case: the first file failed, the walk went on to a second file, which
\* was converted and written, and the process ended with exit code 0.
C6_Witness ==
    /\ PerFileRun
    /\ pc = "exit"
    /\ exitCode = 0
    /\ Len(found) = 2
    /\ failCount = 1
    /\ successCount = 1
    /\ Written # {}
    /\ \A k \in Written : saves[k].src = found[2]

\* C7, in every state: the log follows the collection order, the counters
\* count the files of the log by what happened to them, and when the mode
\* returns after the walk every collected file is in the log and one save
\* was attempted.
C7_Counted ==
    MergedRun =>
        /\ Len(log) <= Len(csvFiles)
        /\ \A j \in DOMAIN log : log[j].path = csvFiles[j]
        /\ failCount = Cardinality(FailedFiles)
        /\ successCount = Cardinality(ConvertedFiles)
        /\ (pc = "exit" /\ csvFiles # << >> /\ ret # "scan") =>
              /\ Len(log) = Len(csvFiles)
              /\ successCount + failCount = Len(csvFiles)
              /\ Len(saves) = 1

\* C7, in every step that processes a file: one file is added to the log and
\* one counter goes up by one; after a sheet creation failure the workbook is
\* as it was (no conversion was attempted); after a conversion failure the
\* sheet is in the workbook.
C7_Step ==
    (pc = "loop" /\ log' # log) =>
        LET e == log'[Len(log')]
        IN  /\ Len(log') = Len(log) + 1
            /\ successCount' + failCount' = successCount + failCount + 1
            /\ e.outcome = "createFail" => (failCount' = failCount + 1 /\ book' = book)
            /\ e.outcome = "convFail" =>
                  /\ failCount' = failCount + 1
                  /\ GetSheetIndex(book', e.sheetName) # -1
            /\ e.outcome = "ok" => successCount' = successCount + 1

\* C7: merged mode counts every collected file exactly once, in collection
\* order: a sheet creation failure as a failure without a conversion, a
\* conversion failure as a failure that leaves the sheet, anything else as a
\* success; the workbook is saved also when files failed.
C7_MergedCounts == [](C7_Counted) /\ [][C7_Step]_vars

\* C7's case: of two files, the sheet of the first could not be
\* created and the conversion of the second failed after its first record
\* was written; the workbook was saved.
C7_Witness ==
    /\ MergedRun
    /\ pc = "exit"
    /\ Len(log) = 2
    /\ log[1].outcome = "createFail"
    /\ log[2].outcome = "convFail"
    /\ failCount = 2
    /\ successCount = 0
    /\ Len(saves) = 1
    /\ \E n \in DOMAIN saves[1].book.sheets :
         /\ saves[1].book.sheets[n].name = log[2].sheetName
         /\ saves[1].book.sheets[n].cells = (<<1, 1>> :> <<"a">>)

\* C8: in merged mode nothing is saved before every collected file was
\* processed; a walk that ends without a CSV file makes the mode return nil
\* with no save; a walk that ends with CSV files is followed by exactly one
\* save, to <directory>/<base name of the directory>.xlsx.
C8_OneSaveAtTheEnd ==
    MergedRun =>
        /\ Len(saves) <= 1
        /\ saves # << >> =>
              /\ pc = "exit"
              /\ Len(log) = Len(csvFiles)
              /\ csvFiles # << >>
              /\ saves[1].path = [dir |-> Append(args.d.dir, args.d.name),
                                  name |-> args.d.name \o <<".", "x", "l", "s", "x">>]
        /\ (pc = "exit" /\ ret # "scan" /\ ret # "not exist") =>
              IF csvFiles = << >>
              THEN saves = << >> /\ ret = "" /\ exitCode = 0
              ELSE Len(saves) = 1

\* C8's case: two files were collected and processed, one of them failed,
\* and the workbook was then saved to d/a/a.xlsx.
C8_Witness ==
    /\ MergedRun
    /\ pc = "exit"
    /\ Len(csvFiles) = 2
    /\ failCount = 1
    /\ Len(saves) = 1
    /\ saves[1].ok
    /\ saves[1].path = [dir |-> << <<"d">>, <<"a">> >>,
                        name |-> <<"a", ".", "x", "l", "s", "x">>]

\* What C9 says the exit code is.
ClaimedExitCode ==
    IF \/ args.f = NoPath /\ args.d = NoPath
       \/ args.f # NoPath /\ args.d # NoPath
       \/ ret \notin {"none", ""}
    THEN 1 ELSE 0

====
